---- MODULE Spec2Model ----
(***************************************************************************)
(* Retrieval engine of Fairstakeai: the tiered question answering of       *)
(*   - backend/app/routes/rag.py + utils/simple_free_rag.py (managed       *)
(*     knowledge base, else the local TF-IDF index),                       *)
(*   - clearclause-legal-assistant/backend (LegalDocumentProcessor: FAISS, *)
(*     else TF-IDF, else keyword scan),                                    *)
(*   - utils/rag_ingest.py + utils/rag_query.py (the ChromaDB scripts).    *)
(* The three share no state but the contracts directory.  A behaviour      *)
(* follows the requests of one of them, named by `component`.              *)
(* SpecChunk runs the chunkers of the ingestion on bounded texts.          *)
(***************************************************************************)
EXTENDS Integers, Sequences, FiniteSets, TLC

VARIABLES
    component,              \* which of the three programs this run exercises
    contracts,              \* data/contracts: the chunks its documents yield
    KNOWLEDGE_BASE_ID,      \* rag.py:48, read from the environment at import
    bedrock_agent_runtime,  \* rag.py:55-61, "client" or "None"
    GEMINI_API_KEY,         \* simple_free_rag.py:29 / rag_query.py:47
    simple_rag_cached,      \* rag.py:26 _simple_rag_cached is not None
    rag_instance,           \* simple_free_rag.py:266 _rag_instance is not None
    rag,                    \* the fields of the SimpleFreeRAG singleton
    index_file,             \* data/tfidf_index.pkl
    choices,                \* history: the backends rag_query has chosen
    processor_created,      \* clearclause.py:16 processor is not None
    processor,              \* the fields of the LegalDocumentProcessor
    collection,             \* the ChromaDB collection "legal_contracts"
    ingest,                 \* rag_ingest.py: where the running ingest_pdfs stands
    embedding_model,        \* rag_query.py:50 _embedding_model (0: None)
    gemini_model,           \* rag_query.py:51 _gemini_model (0: None)
    chunker,                \* a running chunk_text or _load_pdf: its locals
    outcome                 \* what the last operation returned to its caller

(* ----------------------------- bounds ---------------------------------- *)
NumTexts == 2       \* distinct chunk texts
NumQueries == 3     \* distinct questions (0 is a question matching nothing)
MaxChunks == 4      \* cap on the chunks one index accumulates

MaxTextLen == 9     \* longest text given to chunk_text, in characters
MaxWindow == 4      \* largest chunk_size and overlap given to chunk_text
MaxIterations == 10 \* iterations of the loop of chunk_text that are followed
MaxAwsCitations == 6    \* most citations or retrievalResults of one response
MaxAwsRefs == 2     \* most retrievedReferences of one citation

Texts == 1..NumTexts
Queries == 0..NumQueries
\* The batches a directory of documents can chunk into.
Batches == {[i \in 1..n |-> i] : n \in 0..NumTexts}

(* ------------------------ program constants ---------------------------- *)
MAX_RESULTS == 5
QUERY_TOP_K == 5
SCORE_THRESHOLD == 3        \* 0.003, similarities are in thousandths
SNIPPET_CHARS == 400        \* simple_free_rag.py:253 r['text'][:400]
EXTRACT_CHARS == 500        \* simple_free_rag.py:189, 229 results[0]['text'][:500]
QUOTA_EXCERPT_CHARS == 300  \* rag_query.py:199 chunk['text'][:300]
OFFLINE_CONTEXT_CHARS == 2000   \* legal_processor.py:510-511 context[:2000]
ROUTE_SNIPPET_CHARS == 500  \* rag.py:128, 248, 261 snippet[:500]

\* the length in characters of chunk text c: one text shorter than every
\* truncation, one between them, the others longer than all
TextLen(c) ==
    CASE c = 1 -> 250
      [] c = 2 -> 1000
      [] OTHER -> 3000

(* --------------------------- similarity -------------------------------- *)
\* Cosine similarity of question q and chunk text c, in thousandths.
Sim(q, c) ==
    CASE q = 0 -> 0
      [] q = c -> 900
      [] q = c + 1 -> 400
      [] q = c + 2 -> 400
      [] q = c - 1 -> 3
      [] OTHER -> 0

Min(a, b) == IF a < b THEN a ELSE b
Max(a, b) == IF a > b THEN a ELSE b

\* np.argsort: the indices of s in ascending order of value (insertion sort on
\* short arrays: equal values keep their index order).
Argsort(s) ==
    LET n == Len(s)
        Rank(i) == Cardinality({j \in 1..n : s[j] < s[i] \/ (s[j] = s[i] /\ j < i)}) + 1
    IN [r \in 1..n |-> CHOOSE i \in 1..n : Rank(i) = r]

Reverse(s) == [i \in 1..Len(s) |-> s[Len(s) + 1 - i]]
\* s[-k:]
LastK(s, k) == IF Len(s) <= k THEN s ELSE SubSeq(s, Len(s) - k + 1, Len(s))
\* the same keeping the whole string
CutNone(len, n) == len
\* s[:n] of a string of len characters: the number of leading characters kept
Cut(len, n) == Min(len, n)
\* s[:k]
FirstK(s, k) == IF Len(s) <= k THEN s ELSE SubSeq(s, 1, k)

(* ------------------------- SimpleFreeRAG ------------------------------- *)
NoMatrix == [none |-> TRUE, rows |-> <<>>]
Matrix(rows) == [none |-> FALSE, rows |-> rows]

\* metadata record of a chunk (filename, page, path)
Meta(c) == 10 + c

\* SimpleFreeRAG.__init__
NewRag == [chunks |-> <<>>, metadata |-> <<>>, vectorizer |-> "None",
           tfidf_matrix |-> NoMatrix]

NoFile == [state |-> "absent", data |-> NewRag]

\* load_documents: every chunk of the directory is appended to self.chunks and
\* its metadata to self.metadata; nothing is reset.
LoadDocuments(self, dir) ==
    [self EXCEPT !.chunks = @ \o dir,
                 !.metadata = @ \o [i \in 1..Len(dir) |-> Meta(dir[i])]]

\* build_index: the vectorizer is assigned before fit_transform runs, the matrix
\* after it; fitOk = FALSE is fit_transform raising.
BuildIndex(self, fitOk) ==
    IF self.chunks = <<>> THEN [self |-> self, raised |-> FALSE]
    ELSE IF fitOk
    THEN [self |-> [self EXCEPT !.vectorizer = "fitted",
                                !.tfidf_matrix = Matrix(self.chunks)],
          raised |-> FALSE]
    ELSE [self |-> [self EXCEPT !.vectorizer = "unfitted"], raised |-> TRUE]

\* the same with the matrix left out of the pickled dictionary
SaveIndexNoMatrix(self) ==
    [state |-> "valid",
     data |-> [chunks |-> self.chunks, metadata |-> self.metadata,
               vectorizer |-> self.vectorizer, tfidf_matrix |-> NoMatrix]]

\* save_index: pickles a dictionary of the four fields into INDEX_PATH
SaveIndex(self) ==
    [state |-> "valid",
     data |-> [chunks |-> self.chunks, metadata |-> self.metadata,
               vectorizer |-> self.vectorizer, tfidf_matrix |-> self.tfidf_matrix]]

\* load_index: False when the file is missing or cannot be unpickled; else the
\* four fields are assigned from the dictionary one after the other, and a key
\* the dictionary lacks raises KeyError after the fields before it were
\* assigned (state "lacks_vectorizer", "lacks_tfidf_matrix")
LoadIndex(self, file) ==
    IF file.state = "valid"
    THEN [self |-> [self EXCEPT !.chunks = file.data.chunks,
                                !.metadata = file.data.metadata,
                                !.vectorizer = file.data.vectorizer,
                                !.tfidf_matrix = file.data.tfidf_matrix],
          ok |-> TRUE]
    ELSE IF file.state = "lacks_vectorizer"
    THEN [self |-> [self EXCEPT !.chunks = file.data.chunks,
                                !.metadata = file.data.metadata],
          ok |-> FALSE]
    ELSE IF file.state = "lacks_tfidf_matrix"
    THEN [self |-> [self EXCEPT !.chunks = file.data.chunks,
                                !.metadata = file.data.metadata,
                                !.vectorizer = file.data.vectorizer],
          ok |-> FALSE]
    ELSE [self |-> self, ok |-> FALSE]

\* the same keeping every one of the top_k rows, whatever its similarity
SearchNoThreshold(self, q, top_k) ==
    IF self.vectorizer = "None" THEN [raised |-> FALSE, results |-> <<>>]
    ELSE IF self.vectorizer = "unfitted" \/ self.tfidf_matrix.none
    THEN [raised |-> TRUE, results |-> <<>>]
    ELSE LET rows == self.tfidf_matrix.rows
             similarities == [i \in 1..Len(rows) |-> Sim(q, rows[i])]
             kept == Reverse(LastK(Argsort(similarities), top_k))
         IN [raised |-> FALSE,
             results |-> [i \in 1..Len(kept) |->
                 [text |-> self.chunks[kept[i]],
                  score |-> similarities[kept[i]],
                  metadata |-> self.metadata[kept[i]]]]]

\* search: the ranked results, or the exception it raises
Search(self, q, top_k) ==
    IF self.vectorizer = "None" THEN [raised |-> FALSE, results |-> <<>>]
    ELSE IF self.vectorizer = "unfitted" \/ self.tfidf_matrix.none
    THEN [raised |-> TRUE, results |-> <<>>]
    ELSE LET rows == self.tfidf_matrix.rows
             similarities == [i \in 1..Len(rows) |-> Sim(q, rows[i])]
             top_indices == Reverse(LastK(Argsort(similarities), top_k))
             kept == SelectSeq(top_indices, LAMBDA idx : similarities[idx] > SCORE_THRESHOLD)
         IN IF \E i \in 1..Len(kept) : kept[i] > Len(self.chunks)
            THEN [raised |-> TRUE, results |-> <<>>]
            ELSE [raised |-> FALSE,
                  results |-> [i \in 1..Len(kept) |->
                      [text |-> self.chunks[kept[i]],
                       score |-> similarities[kept[i]],
                       metadata |-> self.metadata[kept[i]]]]]

\* generate_answer: what the answer is made of
GenerateAnswer(key, results, gen) ==
    IF ~key THEN (IF results # <<>> THEN "extractive" ELSE "no_relevant")
    ELSE IF gen = "ok" THEN "generated"
    ELSE IF results # <<>> THEN "extractive" ELSE "error_text"

\* the same with the excerpt of rag_query.py: 300 characters
AnswerExcerptShort(answer, results) ==
    IF answer = "extractive"
    THEN Min(TextLen(results[1].text), QUOTA_EXCERPT_CHARS) ELSE 0

\* generate_answer: how many characters of the top result's text the answer
\* quotes (simple_free_rag.py:189, 229: results[0]['text'][:500])
AnswerExcerpt(answer, results) ==
    IF answer = "extractive"
    THEN Min(TextLen(results[1].text), EXTRACT_CHARS) ELSE 0

\* the same with the first chunk cited when the search finds nothing
RagQueryResultPadded(self, q, key, gen) ==
    LET s == Search(self, q, QUERY_TOP_K) IN
    IF s.raised
    THEN [raised |-> TRUE, answer |-> "none", excerpt |-> 0, citations |-> <<>>]
    ELSE IF s.results = <<>>
    THEN [raised |-> FALSE, answer |-> "no_relevant", excerpt |-> 0,
          citations |-> IF self.chunks = <<>> THEN <<>>
                        ELSE <<[tier |-> "lexical", chunk |-> self.chunks[1],
                                meta |-> self.metadata[1], score |-> 0,
                                snippet |-> Cut(TextLen(self.chunks[1]), SNIPPET_CHARS)]>>]
    ELSE [raised |-> FALSE,
          answer |-> GenerateAnswer(key, s.results, gen),
          excerpt |-> AnswerExcerpt(GenerateAnswer(key, s.results, gen), s.results),
          citations |-> [i \in 1..Len(s.results) |->
              [tier |-> "lexical", chunk |-> s.results[i].text,
               meta |-> s.results[i].metadata, score |-> s.results[i].score,
               snippet |-> Cut(TextLen(s.results[i].text), SNIPPET_CHARS)]]]

\* the same with one citation kept for each source and page
RagQueryResultMerged(self, q, key, gen) ==
    LET s == Search(self, q, QUERY_TOP_K)
        r == s.results
        first == SelectSeq([i \in 1..Len(r) |-> i],
                           LAMBDA i : \A j \in 1..(i - 1) : r[j].metadata # r[i].metadata)
    IN
    IF s.raised
    THEN [raised |-> TRUE, answer |-> "none", excerpt |-> 0, citations |-> <<>>]
    ELSE IF r = <<>>
    THEN [raised |-> FALSE, answer |-> "no_relevant", excerpt |-> 0, citations |-> <<>>]
    ELSE [raised |-> FALSE,
          answer |-> GenerateAnswer(key, r, gen),
          excerpt |-> AnswerExcerpt(GenerateAnswer(key, r, gen), r),
          citations |-> [i \in 1..Len(first) |->
              [tier |-> "lexical", chunk |-> r[first[i]].text,
               meta |-> r[first[i]].metadata, score |-> r[first[i]].score,
               snippet |-> Cut(TextLen(r[first[i]].text), SNIPPET_CHARS)]]]

\* query
RagQueryResult(self, q, key, gen) ==
    LET s == Search(self, q, QUERY_TOP_K) IN
    IF s.raised
    THEN [raised |-> TRUE, answer |-> "none", excerpt |-> 0, citations |-> <<>>]
    ELSE IF s.results = <<>>
    THEN [raised |-> FALSE, answer |-> "no_relevant", excerpt |-> 0, citations |-> <<>>]
    ELSE [raised |-> FALSE,
          answer |-> GenerateAnswer(key, s.results, gen),
          excerpt |-> AnswerExcerpt(GenerateAnswer(key, s.results, gen), s.results),
          citations |-> [i \in 1..Len(s.results) |->
              [tier |-> "lexical", chunk |-> s.results[i].text,
               meta |-> s.results[i].metadata, score |-> s.results[i].score,
               snippet |-> Cut(TextLen(s.results[i].text), SNIPPET_CHARS)]]]

\* simple_free_rag.get_simple_rag: the singleton is assigned before it is loaded
Factory(inst, self, file, dir, fitOk) ==
    IF inst THEN [inst |-> TRUE, self |-> self, file |-> file, raised |-> FALSE]
    ELSE LET l == LoadIndex(NewRag, file) IN
         IF l.ok THEN [inst |-> TRUE, self |-> l.self, file |-> file, raised |-> FALSE]
         ELSE LET s1 == LoadDocuments(l.self, dir)
                  b == BuildIndex(s1, fitOk)
              IN IF s1.chunks = <<>>
                 THEN [inst |-> TRUE, self |-> s1, file |-> file, raised |-> FALSE]
                 ELSE IF b.raised
                 THEN [inst |-> TRUE, self |-> b.self, file |-> file, raised |-> TRUE]
                 ELSE [inst |-> TRUE, self |-> b.self, file |-> SaveIndex(b.self),
                       raised |-> FALSE]

\* rag.get_simple_rag: the cached instance, else the factory's; None when the
\* import or the factory raises
RouteGetSimpleRag(cached, inst, self, file, dir, importOk, fitOk) ==
    IF cached
    THEN [cached |-> TRUE, inst |-> inst, self |-> self, file |-> file, got |-> TRUE]
    ELSE IF ~importOk
    THEN [cached |-> FALSE, inst |-> inst, self |-> self, file |-> file, got |-> FALSE]
    ELSE LET f == Factory(inst, self, file, dir, fitOk) IN
         [cached |-> ~f.raised, inst |-> f.inst, self |-> f.self, file |-> f.file,
          got |-> ~f.raised]

(* ------------------------------ rag.py --------------------------------- *)
\* KNOWLEDGE_BASE_ID.strip(): "" and " " strip to the empty string
Strip(id) == IF id = " " THEN "" ELSE id

\* the same without strip(): a blank identifier counts as configured
UseAwsNoStrip == KNOWLEDGE_BASE_ID # "" /\ bedrock_agent_runtime # "None"

\* rag.py:112
UseAws == Strip(KNOWLEDGE_BASE_ID) # "" /\ bedrock_agent_runtime # "None"

NoOutcome == [op |-> "none", q |-> 0, kind |-> "none", status |-> 0,
              answer |-> "none", tier |-> "none", recorded |-> "none",
              citations |-> <<>>, attempted |-> <<>>, failed |-> {},
              cause |-> "none", seen |-> [exists |-> FALSE, items |-> <<>>],
              during |-> FALSE, gen |-> "none", excerpt |-> 0, log |-> <<>>]

ragVars == <<simple_rag_cached, rag_instance, rag, index_file>>
cfgVars == <<component, KNOWLEDGE_BASE_ID, bedrock_agent_runtime, GEMINI_API_KEY>>
procVars == <<processor_created, processor>>
chromaVars == <<collection, ingest, embedding_model, gemini_model>>

\* the outcomes of bedrock_agent_runtime.retrieve_and_generate
AwsOutcomes == {"citations", "retrievalResults", "empty", "AccessDeniedException",
                "ResourceNotFoundException", "ThrottlingException",
                "OtherClientError", "BotoCoreError"}

\* the same with one status for every ClientError
AwsStatusMerged(aws) ==
    CASE aws \in {"AccessDeniedException", "ResourceNotFoundException",
                  "ThrottlingException", "OtherClientError"} -> 502
      [] aws = "BotoCoreError" -> 500
      [] OTHER -> 200

\* rag.py:186-218: the HTTP status of each failure of retrieve_and_generate
AwsStatus(aws) ==
    CASE aws = "AccessDeniedException" -> 403
      [] aws = "ResourceNotFoundException" -> 404
      [] aws = "ThrottlingException" -> 429
      [] aws = "OtherClientError" -> 502
      [] aws = "BotoCoreError" -> 500
      [] OTHER -> 200

\* The outcomes of the environment that a call can meet: the import and the
\* first fit happen only while no instance is cached, the generation backend is
\* called only with an API key.
ImportOutcomes == IF simple_rag_cached THEN {TRUE} ELSE BOOLEAN
FitOutcomes == IF simple_rag_cached \/ rag_instance THEN {TRUE} ELSE BOOLEAN
GenOutcomes(key) == IF key THEN {"ok", "quota", "error"} ELSE {"ok"}

\* rag.py:139-140 and 325-327: `except Exception` catches every exception
\* raised inside the handler, the HTTPException the handler raised itself too,
\* and raises an HTTPException of status 500 in its place
CaughtStatus(status) == 500

\* rag_query, local path (rag.py:114-140)
RagQueryLocal(q, importOk, fitOk, gen) ==
    LET g == RouteGetSimpleRag(simple_rag_cached, rag_instance, rag, index_file,
                               contracts, importOk, fitOk)
        r == RagQueryResult(g.self, q, GEMINI_API_KEY, gen)
    IN /\ simple_rag_cached' = g.cached
       /\ rag_instance' = g.inst
       /\ rag' = g.self
       /\ index_file' = g.file
       /\ outcome' =
            IF ~g.got
            THEN [NoOutcome EXCEPT !.op = "rag_query", !.q = q, !.kind = "error",
                                   !.status = CaughtStatus(503),
                                   !.cause = "local_unavailable"]
            ELSE IF r.raised
            THEN [NoOutcome EXCEPT !.op = "rag_query", !.q = q, !.kind = "error",
                                   !.status = 500, !.attempted = <<"lexical">>,
                                   !.failed = {"lexical"}, !.cause = "search_error"]
            ELSE [NoOutcome EXCEPT !.op = "rag_query", !.q = q, !.kind = "answer",
                                   !.status = 200, !.answer = r.answer,
                                   !.tier = "lexical", !.recorded = "local_free",
                                   !.citations =
                                       LET c == FirstK(r.citations, MAX_RESULTS)
                                       IN [i \in 1..Len(c) |->
                                              [c[i] EXCEPT !.snippet =
                                                  Cut(@, ROUTE_SNIPPET_CHARS)]],
                                   !.attempted = <<"lexical">>,
                                   !.excerpt = r.excerpt,
                                   !.gen = IF GEMINI_API_KEY /\ r.citations # <<>>
                                           THEN gen ELSE "none",
                                   !.log = IF GEMINI_API_KEY /\ r.citations # <<>>
                                           THEN <<gen>> ELSE <<>>]

\* rag_query, lines 218-262: the citations of a response with n citations of
\* refs retrievedReferences each, or with n retrievalResults, all of text c
AwsCitations(aws, n, refs, c) ==
    LET retrievals == FirstK([i \in 1..n |-> refs], MAX_RESULTS)
        retrievals_fallback == FirstK([i \in 1..n |-> c], MAX_RESULTS)
    IN IF aws = "citations"
       THEN [i \in 1..(Len(retrievals) * refs) |->
                [tier |-> "managed", chunk |-> c, meta |-> Meta(c), score |-> -1,
                 snippet |-> Cut(TextLen(c), ROUTE_SNIPPET_CHARS)]]
       ELSE IF aws = "retrievalResults"
       THEN [i \in 1..Len(retrievals_fallback) |->
                [tier |-> "managed", chunk |-> retrievals_fallback[i],
                 meta |-> Meta(retrievals_fallback[i]), score |-> 500,
                 snippet |-> Cut(TextLen(retrievals_fallback[i]), ROUTE_SNIPPET_CHARS)]]
       ELSE <<>>

\* rag_query, managed path (rag.py:142-275)
RagQueryAws(q, aws, n, refs, c) ==
    /\ UNCHANGED ragVars
    /\ outcome' =
         IF aws \in {"citations", "retrievalResults", "empty"}
         THEN [NoOutcome EXCEPT !.op = "rag_query", !.q = q, !.kind = "answer",
                                !.status = 200, !.answer = "generated",
                                !.tier = "managed", !.recorded = "aws",
                                !.citations = AwsCitations(aws, n, refs, c),
                                !.attempted = <<"managed">>]
         ELSE [NoOutcome EXCEPT !.op = "rag_query", !.q = q, !.kind = "error",
                                !.status = AwsStatus(aws),
                                !.attempted = <<"managed">>,
                                !.failed = {"managed"}, !.cause = aws]

RagQuery ==
    /\ component = "rag_api"
    /\ \E q \in Queries :
          IF UseAws
          THEN /\ \E aws \in AwsOutcomes :
                    IF aws = "citations"
                    THEN \E n \in {1, MaxAwsCitations}, refs \in {0, MaxAwsRefs},
                            c \in Texts : RagQueryAws(q, aws, n, refs, c)
                    ELSE IF aws = "retrievalResults"
                    THEN \E n \in {1, MaxAwsCitations}, c \in Texts :
                            RagQueryAws(q, aws, n, 0, c)
                    ELSE RagQueryAws(q, aws, 1, 0, 1)
               /\ choices' = choices \cup {"managed"}
          ELSE /\ \E importOk \in ImportOutcomes, fitOk \in FitOutcomes,
                     gen \in GenOutcomes(GEMINI_API_KEY) :
                       RagQueryLocal(q, importOk, fitOk, gen)
               /\ choices' = choices \cup {"local"}
    /\ UNCHANGED <<cfgVars, chunker, contracts, procVars, chromaVars>>

\* rag_ingest_local (rag.py:300-327)
RagIngestLocal ==
    /\ component = "rag_api"
    /\ \E importOk \in ImportOutcomes, fitOk \in FitOutcomes, fitOk2 \in BOOLEAN :
        LET g == RouteGetSimpleRag(simple_rag_cached, rag_instance, rag, index_file,
                                   contracts, importOk, fitOk)
            s1 == LoadDocuments(g.self, contracts)
            b == BuildIndex(s1, fitOk2)
        IN /\ Len(g.self.chunks) + Len(contracts) <= MaxChunks
           /\ simple_rag_cached' = g.cached
           /\ rag_instance' = g.inst
           /\ IF ~g.got
              THEN /\ rag' = g.self
                   /\ index_file' = g.file
                   /\ outcome' = [NoOutcome EXCEPT !.op = "rag_ingest_local",
                                                   !.kind = "error",
                                                   !.status = CaughtStatus(503),
                                                   !.cause = "local_unavailable"]
              ELSE IF s1.chunks = <<>>
              THEN /\ rag' = s1
                   /\ index_file' = g.file
                   /\ outcome' = [NoOutcome EXCEPT !.op = "rag_ingest_local",
                                                   !.kind = "answer", !.status = 200,
                                                   !.answer = "warning"]
              ELSE IF b.raised
              THEN /\ rag' = b.self
                   /\ index_file' = g.file
                   /\ outcome' = [NoOutcome EXCEPT !.op = "rag_ingest_local",
                                                   !.kind = "error", !.status = 500,
                                                   !.cause = "build_error"]
              ELSE /\ rag' = b.self
                   /\ index_file' = SaveIndex(b.self)
                   /\ outcome' = [NoOutcome EXCEPT !.op = "rag_ingest_local",
                                                   !.kind = "answer", !.status = 200,
                                                   !.answer = "success"]
    /\ UNCHANGED <<cfgVars, chunker, contracts, choices, procVars, chromaVars>>

\* the documents of data/contracts are replaced by the operator
ChangeContracts ==
    /\ component \in {"rag_api", "chroma"}
    /\ \E b \in Batches : b # contracts /\ contracts' = b
    /\ UNCHANGED <<cfgVars, chunker, ragVars, choices, outcome, procVars, chromaVars>>

(* ---------------------- LegalDocumentProcessor ------------------------- *)
PROC_TOP_K == 3

NoStore == [none |-> TRUE, texts |-> <<>>]

\* LegalDocumentProcessor.__init__
NewProcessor == [vector_store |-> NoStore, raw_text |-> <<>>, text_chunks |-> <<>>,
                 tfidf_vectorizer |-> "None", tfidf_matrix |-> NoMatrix]

\* process_documents: FALSE, and nothing assigned, when no text or no chunk was
\* extracted; else the chunks are kept and each index is built or set to None
ProcessDocuments(self, batch, tfidfOk, embedOk) ==
    IF batch = <<>> THEN [self |-> self, ok |-> FALSE]
    ELSE [self |-> [vector_store |-> IF embedOk THEN [none |-> FALSE, texts |-> batch]
                                     ELSE NoStore,
                    raw_text |-> batch,
                    text_chunks |-> batch,
                    tfidf_vectorizer |-> IF tfidfOk THEN "fitted" ELSE "None",
                    tfidf_matrix |-> IF tfidfOk THEN Matrix(batch) ELSE NoMatrix],
          ok |-> TRUE]

\* exact-term occurrences of the words of question q in chunk text c
KeywordCount(q, c) ==
    CASE q = 0 -> 0
      [] q = c -> 2
      [] q = c + 1 -> 1
      [] q = c + 2 -> 1
      [] OTHER -> 0

\* sorted(scores, reverse=True) over (score, idx) tuples: descending score, and
\* among equal scores descending index
KeywordOrder(scores) ==
    LET n == Len(scores)
        Rank(i) == Cardinality({j \in 1..n : scores[j] > scores[i]
                                   \/ (scores[j] = scores[i] /\ j > i)}) + 1
    IN [r \in 1..n |-> CHOOSE i \in 1..n : Rank(i) = r]

\* nearest first; among equally near entries the one stored first
NearestOrder(sims) ==
    LET n == Len(sims)
        Rank(i) == Cardinality({j \in 1..n : sims[j] > sims[i]
                                   \/ (sims[j] = sims[i] /\ j < i)}) + 1
    IN [r \in 1..n |-> CHOOSE i \in 1..n : Rank(i) = r]

\* vector_store.similarity_search(question, k=3): the k nearest texts
DenseDocs(self, q) ==
    LET texts == self.vector_store.texts
        sims == [i \in 1..Len(texts) |-> Sim(q, texts[i])]
        top == FirstK(NearestOrder(sims), PROC_TOP_K)
    IN [i \in 1..Len(top) |-> [tier |-> "dense", chunk |-> texts[top[i]]]]

\* legal_processor.py:458-461
TfidfDocs(self, q) ==
    LET rows == self.tfidf_matrix.rows
        sims == [i \in 1..Len(rows) |-> Sim(q, rows[i])]
        top_idxs == Reverse(LastK(Argsort(sims), PROC_TOP_K))
    IN [i \in 1..Len(top_idxs) |-> [tier |-> "lexical", chunk |-> self.text_chunks[top_idxs[i]]]]

\* legal_processor.py:463-473
KeywordDocs(self, q) ==
    LET chunks == self.text_chunks
        scores == [i \in 1..Len(chunks) |-> KeywordCount(q, chunks[i])]
        matched == SelectSeq(FirstK(KeywordOrder(scores), PROC_TOP_K),
                             LAMBDA i : scores[i] > 0)
        top_idxs == IF matched = <<>>
                    THEN [i \in 1..Min(PROC_TOP_K, Len(chunks)) |-> i]
                    ELSE matched
    IN [i \in 1..Len(top_idxs) |-> [tier |-> "keyword", chunk |-> chunks[top_idxs[i]]]]

\* the same with the TF-IDF index tried before the vector store
SelectTierLexicalFirst(self) ==
    IF self.tfidf_vectorizer # "None" /\ ~self.tfidf_matrix.none THEN "lexical"
    ELSE IF ~self.vector_store.none THEN "dense"
    ELSE "keyword"

\* the same with the keyword scan tried before the TF-IDF index
SelectTierKeywordFirst(self) ==
    IF ~self.vector_store.none THEN "dense"
    ELSE IF self.text_chunks # <<>> THEN "keyword"
    ELSE "lexical"

\* legal_processor.py:454-463: the branch that retrieves
SelectTier(self) ==
    IF ~self.vector_store.none THEN "dense"
    ELSE IF self.tfidf_vectorizer # "None" /\ ~self.tfidf_matrix.none THEN "lexical"
    ELSE "keyword"

\* the same with the keyword matches appended to the TF-IDF documents
RetrieveDocsMerged(self, q) ==
    CASE SelectTier(self) = "dense" -> DenseDocs(self, q)
      [] SelectTier(self) = "lexical" -> TfidfDocs(self, q) \o KeywordDocs(self, q)
      [] OTHER -> KeywordDocs(self, q)

\* legal_processor.py:454-475: the documents the answer is built from
RetrieveDocs(self, q) ==
    CASE SelectTier(self) = "dense" -> DenseDocs(self, q)
      [] SelectTier(self) = "lexical" -> TfidfDocs(self, q)
      [] OTHER -> KeywordDocs(self, q)

\* robust_generate (legal_processor.py:50-73)
RETRIES == 2        \* retries=2: range(retries + 1) attempts with one model
NUM_MODELS == 2     \* models_to_try

\* How the generation backend behaves during one call of robust_generate:
\* answering, answering without content, refusing with 429, refusing the API
\* key with 403, timing out once and then answering, or timing out every time.
GenBehaviours == {"ok", "empty", "quota", "auth", "transient", "down"}

\* what the n-th generate_content call of the operation does
Response(b, n) ==
    CASE b = "ok" -> "ok"
      [] b = "empty" -> "empty"
      [] b = "quota" -> "429"
      [] b = "auth" -> "403"
      [] b = "transient" -> IF n = 1 THEN "timeout" ELSE "ok"
      [] OTHER -> "timeout"

\* robust_generate from attempt a (counted from 0) of model m on, n calls
\* made so far: a usable text returns; an empty one goes to the next attempt;
\* an exception with "429" breaks to the next model; any other exception
\* sleeps and tries again while attempt < retries, else returns "(Error: ...)"
RECURSIVE RobustGenerateFrom(_, _, _, _, _)
RobustGenerateFrom(b, m, a, n, log) ==
    IF m > NUM_MODELS THEN [text |-> "no_model", calls |-> n, log |-> log]
    ELSE IF a > RETRIES THEN RobustGenerateFrom(b, m + 1, 0, n, log)
    ELSE LET r == Response(b, n + 1)
             log2 == Append(log, r)
         IN CASE r = "ok" -> [text |-> "generated", calls |-> n + 1, log |-> log2]
              [] r = "empty" -> RobustGenerateFrom(b, m, a + 1, n + 1, log2)
              [] r = "429" -> RobustGenerateFrom(b, m + 1, 0, n + 1, log2)
              [] OTHER -> IF a < RETRIES
                          THEN RobustGenerateFrom(b, m, a + 1, n + 1, log2)
                          ELSE [text |-> "error_text", calls |-> n + 1, log |-> log2]

RobustGenerate(b) == RobustGenerateFrom(b, 1, 0, 0, <<>>)

\* legal_processor.py:507-515: how many characters of the first document the
\* offline answer quotes; the joined context is cut at 2000 characters
ProcExcerpt(answer, docs) ==
    IF answer = "offline_excerpts" /\ docs # <<>>
    THEN Min(TextLen(docs[1].chunk), OFFLINE_CONTEXT_CHARS) ELSE 0

\* handle_document_qna: always a string.  denseOk = FALSE is similarity_search
\* raising; gen is the generation backend: "ok", "quota" or "error" (the chain
\* raises) or "init_error" (the model cannot be constructed).
HandleDocumentQnaResult(self, q, denseOk, gen) ==
    LET docs == RetrieveDocs(self, q)
        tier == SelectTier(self)
    IN IF self.vector_store.none /\ self.text_chunks = <<>>
       THEN [NoOutcome EXCEPT !.q = q, !.kind = "answer", !.status = 200,
                              !.answer = "no_documents"]
       ELSE IF tier = "dense" /\ ~denseOk
       THEN [NoOutcome EXCEPT !.q = q, !.kind = "answer", !.status = 200,
                              !.answer = "error_text", !.attempted = <<"dense">>,
                              !.failed = {"dense"}, !.cause = "embedding"]
       ELSE IF gen = "init_error"
       THEN [NoOutcome EXCEPT !.q = q, !.kind = "answer", !.status = 200,
                              !.answer = "error_text", !.tier = tier,
                              !.attempted = <<tier>>, !.cause = "generation",
                              !.gen = gen]
       ELSE [NoOutcome EXCEPT !.q = q, !.kind = "answer", !.status = 200,
                              !.answer = IF gen = "ok" THEN "generated"
                                         ELSE "offline_excerpts",
                              !.tier = tier, !.citations = docs,
                              !.attempted = <<tier>>, !.gen = gen, !.log = <<gen>>,
                              !.excerpt = ProcExcerpt(IF gen = "ok" THEN "generated"
                                                      ELSE "offline_excerpts", docs)]

DenseOutcomes == IF processor_created /\ ~processor.vector_store.none
                 THEN BOOLEAN ELSE {TRUE}
ProcGenOutcomes == {"ok", "quota", "error", "init_error"}

\* a call of LegalDocumentProcessor.handle_document_qna
HandleDocumentQna ==
    /\ component = "clearclause"
    /\ processor_created
    /\ \E q \in Queries, denseOk \in DenseOutcomes, gen \in ProcGenOutcomes :
         outcome' = [HandleDocumentQnaResult(processor, q, denseOk, gen)
                        EXCEPT !.op = "handle_document_qna"]
    /\ UNCHANGED <<cfgVars, chunker, contracts, ragVars, choices, procVars, chromaVars>>

\* POST /ask (clearclause.py:103-128, main.py:121-142)
AskQuestion ==
    /\ component = "clearclause"
    /\ \E use_document \in BOOLEAN, q \in Queries, denseOk \in DenseOutcomes,
          gen \in ProcGenOutcomes :
         IF use_document
         THEN /\ outcome' =
                   IF ~processor_created \/ processor.vector_store.none
                   THEN [NoOutcome EXCEPT !.op = "ask_question", !.q = q,
                                          !.kind = "error", !.status = 500,
                                          !.cause = "no_vector_store"]
                   ELSE [HandleDocumentQnaResult(processor, q, denseOk, gen)
                            EXCEPT !.op = "ask_question"]
              /\ UNCHANGED procVars
         ELSE /\ processor_created' = TRUE
              /\ UNCHANGED processor
              /\ \E b \in GenBehaviours :
                    outcome' = [NoOutcome EXCEPT !.op = "ask_general", !.q = q,
                                                !.kind = "answer", !.status = 200,
                                                !.answer = RobustGenerate(b).text,
                                                !.gen = b,
                                                !.log = RobustGenerate(b).log]
    /\ UNCHANGED <<cfgVars, chunker, contracts, ragVars, choices, chromaVars>>

\* POST /upload (clearclause.py:58-101, main.py:81-119)
UploadDocuments ==
    /\ component = "clearclause"
    /\ \E batch \in Batches, tfidfOk \in BOOLEAN, embedOk \in BOOLEAN :
         LET p == ProcessDocuments(processor, batch, tfidfOk, embedOk) IN
         /\ processor_created' = TRUE
         /\ processor' = p.self
         /\ outcome' = IF p.ok
                       THEN [NoOutcome EXCEPT !.op = "upload", !.kind = "answer",
                                              !.status = 200, !.answer = "success"]
                       ELSE [NoOutcome EXCEPT !.op = "upload", !.kind = "error",
                                              !.status = 500, !.cause = "no_text"]
    /\ UNCHANGED <<cfgVars, chunker, contracts, ragVars, choices, chromaVars>>

\* the same leaving the TF-IDF index in place
ClearKeepTfidf(self) ==
    [self EXCEPT !.vector_store = NoStore, !.raw_text = <<>>, !.text_chunks = <<>>]

\* LegalDocumentProcessor.clear (legal_processor.py:573-579): five assignments
Clear(self) ==
    [self EXCEPT !.vector_store = NoStore, !.raw_text = <<>>, !.text_chunks = <<>>,
                 !.tfidf_vectorizer = "None", !.tfidf_matrix = NoMatrix]

\* DELETE /clear (clearclause.py:188-202, main.py:191-203)
ClearDocuments ==
    /\ component = "clearclause"
    /\ processor' = IF processor_created THEN Clear(processor) ELSE processor
    /\ outcome' = [NoOutcome EXCEPT !.op = "clear", !.kind = "answer",
                                    !.status = 200, !.answer = "success"]
    /\ UNCHANGED <<cfgVars, chunker, contracts, ragVars, choices, processor_created, chromaVars>>

(* ------------------- rag_ingest.py / rag_query.py ---------------------- *)
CHROMA_TOP_K == 5

NoCollection == [exists |-> FALSE, items |-> <<>>]
Idle == [pc |-> "idle", todo |-> <<>>, old |-> NoCollection, new |-> NoCollection]

\* ingest_pdfs, lines 121-148: the PDFs are listed and the existing collection is
\* deleted before anything replaces it
IngestDelete ==
    /\ component = "chroma"
    /\ ingest.pc = "idle"
    /\ contracts # <<>>
    /\ ingest' = [pc |-> "create", todo |-> contracts, old |-> collection,
                  new |-> [exists |-> TRUE, items |-> contracts]]
    /\ collection' = NoCollection
    /\ UNCHANGED <<cfgVars, chunker, contracts, ragVars, choices, procVars, embedding_model,
                   gemini_model, outcome>>

\* ingest_pdfs, lines 150-155
IngestCreate ==
    /\ component = "chroma"
    /\ ingest.pc = "create"
    /\ collection' = [exists |-> TRUE, items |-> <<>>]
    /\ ingest' = [ingest EXCEPT !.pc = "add"]
    /\ UNCHANGED <<cfgVars, chunker, contracts, ragVars, choices, procVars, embedding_model,
                   gemini_model, outcome>>

\* ingest_pdfs, lines 177-197: one chunk is embedded and added; an exception of
\* the embedding ends the script with the collection as it stands
IngestAdd ==
    /\ component = "chroma"
    /\ ingest.pc = "add"
    /\ ingest.todo # <<>>
    /\ \E embedOk \in BOOLEAN :
         IF embedOk
         THEN /\ collection' = [collection EXCEPT !.items = Append(@, Head(ingest.todo))]
              /\ ingest' = [ingest EXCEPT !.todo = Tail(@)]
         ELSE /\ collection' = collection
              /\ ingest' = Idle
    /\ UNCHANGED <<cfgVars, chunker, contracts, ragVars, choices, procVars, embedding_model,
                   gemini_model, outcome>>

\* ingest_pdfs, lines 199-207
IngestDone ==
    /\ component = "chroma"
    /\ ingest.pc = "add"
    /\ ingest.todo = <<>>
    /\ ingest' = Idle
    /\ UNCHANGED <<cfgVars, chunker, contracts, ragVars, choices, procVars, collection,
                   embedding_model, gemini_model, outcome>>

\* the same without the None check: every call loads another model
GetEmbeddingModelReload(m) == IF m = 1 THEN 2 ELSE 1

\* get_embedding_model: loaded on the first call only; the value is the identity
\* of the loaded model
GetEmbeddingModel(m) == IF m = 0 THEN 1 ELSE m

\* get_gemini_model
GetGeminiModel(m, key) == IF m = 0 THEN (IF key THEN 1 ELSE 0) ELSE m

\* query_chromadb: the n_results nearest chunks of the collection
QueryChromadb(coll, q) ==
    LET sims == [i \in 1..Len(coll.items) |-> Sim(q, coll.items[i])]
        top == FirstK(NearestOrder(sims), CHROMA_TOP_K)
    IN [i \in 1..Len(top) |-> [tier |-> "dense", chunk |-> coll.items[top[i]],
                               meta |-> Meta(coll.items[top[i]]),
                               score |-> sims[top[i]]]]

\* the same with the passages returned for every exception
ChromaAnswerAlwaysPassages(model, gen) ==
    IF model = 0 THEN "not_configured"
    ELSE IF gen = "ok" THEN "generated"
    ELSE "extractive"

\* rag_query.generate_answer: the Gemini answer; on an exception whose message
\* has "429" or "quota" the passages, on any other its description
ChromaAnswer(model, gen) ==
    IF model = 0 THEN "not_configured"
    ELSE IF gen = "ok" THEN "generated"
    ELSE IF gen = "quota" THEN "extractive"
    ELSE "error_text"

\* rag_query.py:195-200: how many characters of the first chunk the quota
\* answer quotes
ChromaExcerpt(answer, chunks) ==
    IF answer = "extractive" /\ chunks # <<>>
    THEN Min(TextLen(chunks[1].chunk), QUOTA_EXCERPT_CHARS) ELSE 0

\* query_rag (rag_query.py:212-255): every exception of the retrieval is
\* raised again to the caller; embedOk = FALSE is the embedding model failing
QueryRag ==
    /\ component = "chroma"
    /\ \E q \in Queries, embedOk \in BOOLEAN, gen \in GenOutcomes(GEMINI_API_KEY) :
         IF ~collection.exists
         THEN /\ outcome' = [NoOutcome EXCEPT !.op = "query_rag", !.q = q,
                                              !.kind = "error", !.status = 500,
                                              !.attempted = <<"dense">>,
                                              !.failed = {"dense"},
                                              !.cause = "collection_missing",
                                              !.seen = collection,
                                              !.during = ingest.pc # "idle"]
              /\ UNCHANGED <<embedding_model, gemini_model>>
         ELSE IF ~embedOk
         THEN /\ outcome' = [NoOutcome EXCEPT !.op = "query_rag", !.q = q,
                                              !.kind = "error", !.status = 500,
                                              !.attempted = <<"dense">>,
                                              !.failed = {"dense"},
                                              !.cause = "embedding",
                                              !.seen = collection,
                                              !.during = ingest.pc # "idle"]
              /\ UNCHANGED <<embedding_model, gemini_model>>
         ELSE /\ embedding_model' = GetEmbeddingModel(embedding_model)
              /\ gemini_model' = GetGeminiModel(gemini_model, GEMINI_API_KEY)
              /\ outcome' = [NoOutcome EXCEPT !.op = "query_rag", !.q = q,
                                              !.kind = "answer", !.status = 200,
                                              !.answer = ChromaAnswer(gemini_model', gen),
                                              !.tier = "dense",
                                              !.citations = QueryChromadb(collection, q),
                                              !.excerpt = ChromaExcerpt(
                                                  ChromaAnswer(gemini_model', gen),
                                                  QueryChromadb(collection, q)),
                                              !.gen = IF gemini_model' = 0 THEN "none"
                                                      ELSE gen,
                                              !.log = IF gemini_model' = 0 THEN <<>>
                                                      ELSE <<gen>>,
                                              !.attempted = <<"dense">>,
                                              !.seen = collection,
                                              !.during = ingest.pc # "idle"]
    /\ UNCHANGED <<cfgVars, chunker, contracts, ragVars, choices, procVars, collection, ingest>>

(* ----------------------------- chunkers -------------------------------- *)
\* A text is its length and the half-open range <<lo, hi>> of its positions
\* that hold whitespace; every other position holds a visible character.  A
\* chunk is the range <<lo, hi>> of the positions it was sliced from.
WORDS_PER_CHUNK == 200      \* simple_free_rag.py:79 chunk_size = 200
TINY_CHARS == 50            \* simple_free_rag.py:82 len(chunk.strip()) > 50

\* iter counts the iterations of the loop; page is the position of the page in
\* the ingestion, prev the chunks of the page before it and ids the ids given
\* to the chunks stored so far
NoChunker == [fn |-> "none", text_len |-> 0, blank |-> <<0, 0>>, chunk_size |-> 1,
              overlap |-> 0, word_len |-> 1, start |-> 0, chunks |-> <<>>,
              iter |-> 0, page |-> 1, prev |-> <<>>, ids |-> <<>>,
              pc |-> "idle"]

\* a slice index of Python: a negative one counts from the end of the text
PyIndex(i, len) == IF i < 0 THEN Max(len + i, 0) ELSE Min(i, len)

\* the same slicing to the end of the text, text[start:]
SliceToEnd(start, end, len) == <<Min(start, len), len>>

\* text[start:end]: the slice is cut at the end of the text, and is empty when
\* it ends before it starts
Slice(start, end, len) ==
    <<PyIndex(start, len), Max(PyIndex(start, len), PyIndex(end, len))>>

\* chunk.strip() is empty: every position of the slice holds whitespace
OnlyWhitespace(chunk, blank) ==
    \A p \in chunk[1]..(chunk[2] - 1) : blank[1] <= p /\ p < blank[2]

\* the same moving a whole window forward
NextStartNoOverlap(start, chunk_size, overlap) == start + chunk_size

\* rag_ingest.py:104: start += (chunk_size - overlap)
NextStart(start, chunk_size, overlap) == start + (chunk_size - overlap)

\* one iteration of the while loop of chunk_text (rag_ingest.py:97-104)
ChunkTextStep ==
    /\ chunker.fn = "chunk_text" /\ chunker.pc = "loop"
    /\ chunker.start < chunker.text_len
    /\ chunker.iter < MaxIterations
    /\ LET end == chunker.start + chunker.chunk_size
           chunk == Slice(chunker.start, end, chunker.text_len)
       IN chunker' = [chunker EXCEPT
              !.chunks = IF OnlyWhitespace(chunk, chunker.blank) THEN @
                         ELSE Append(@, chunk),
              !.start = NextStart(@, chunker.chunk_size, chunker.overlap),
              !.iter = @ + 1]
    /\ UNCHANGED <<cfgVars, contracts, ragVars, choices, procVars, chromaVars, outcome>>

\* " ".join(words[i:i+chunk_size]): the characters of a chunk of n words
JoinedLen(n, word_len) == IF n = 0 THEN 0 ELSE n * word_len + (n - 1)

\* one iteration of `for i in range(0, len(words), chunk_size)` in _load_pdf
\* (simple_free_rag.py:80-88); text_len counts words
LoadPdfStep ==
    /\ chunker.fn = "_load_pdf" /\ chunker.pc = "loop"
    /\ chunker.start < chunker.text_len
    /\ LET chunk == Slice(chunker.start, chunker.start + WORDS_PER_CHUNK,
                          chunker.text_len)
       IN chunker' = [chunker EXCEPT
              !.chunks = IF JoinedLen(chunk[2] - chunk[1], chunker.word_len) > TINY_CHARS
                         THEN Append(@, chunk) ELSE @,
              !.start = @ + WORDS_PER_CHUNK]
    /\ UNCHANGED <<cfgVars, contracts, ragVars, choices, procVars, chromaVars, outcome>>

\* the loop condition fails: the chunks are returned
ChunkReturn ==
    /\ chunker.pc = "loop"
    /\ chunker.start >= chunker.text_len
    /\ chunker' = [chunker EXCEPT !.pc = "done"]
    /\ UNCHANGED <<cfgVars, contracts, ragVars, choices, procVars, chromaVars, outcome>>

\* str(n): the decimal digits of n, one character each
Digits == <<"0", "1", "2", "3", "4", "5", "6", "7", "8", "9">>
RECURSIVE Str(_)
Str(n) == IF n < 10 THEN <<Digits[n + 1]>>
          ELSE Str(n \div 10) \o <<Digits[(n % 10) + 1]>>

\* the pages of one ingestion in the order ingest_pdfs meets them: two pages of
\* a file and the first page of a file whose name reads like an id of the first.
\* Names are sequences of characters.
Pages ==
    <<[filename |-> <<"a", ".", "p", "d", "f">>, page |-> 1],
      [filename |-> <<"a", ".", "p", "d", "f">>, page |-> 2],
      [filename |-> <<"a", ".", "p", "d", "f", "_", "p", "1", "_", "c", "0",
                      ".", "p", "d", "f">>, page |-> 1]>>

\* the same id without the page
ChunkIdNoPage(filename, page_num, chunk_idx) ==
    filename \o <<"_", "c">> \o Str(chunk_idx)

\* rag_ingest.py:174: f"{filename}_p{page_num}_c{chunk_idx}"
ChunkId(filename, page_num, chunk_idx) ==
    filename \o <<"_", "p">> \o Str(page_num) \o <<"_", "c">> \o Str(chunk_idx)

\* ingest_pdfs, lines 171-195: every chunk of the page is stored under its id,
\* chunk_idx counting from 0
StoreChunks ==
    /\ chunker.fn = "chunk_text" /\ chunker.pc = "done"
    /\ chunker' = [chunker EXCEPT
            !.ids = @ \o [i \in 1..Len(chunker.chunks) |->
                             ChunkId(Pages[chunker.page].filename,
                                     Pages[chunker.page].page, i - 1)],
            !.pc = "stored"]
    /\ UNCHANGED <<cfgVars, contracts, ragVars, choices, procVars, chromaVars, outcome>>

\* ingest_pdfs, lines 162-168: chunk_text is called for the next page, which
\* holds the same text; chunks and start are locals of the new call
NextPage ==
    /\ chunker.pc = "stored"
    /\ chunker.page < Len(Pages)
    /\ chunker' = [chunker EXCEPT !.page = @ + 1, !.prev = chunker.chunks,
                                  !.chunks = <<>>, !.start = 0, !.iter = 0,
                                  !.pc = "loop"]
    /\ UNCHANGED <<cfgVars, contracts, ragVars, choices, procVars, chromaVars, outcome>>

(* ---------------------------- specification ---------------------------- *)
vars == <<component, contracts, KNOWLEDGE_BASE_ID, bedrock_agent_runtime,
          GEMINI_API_KEY, simple_rag_cached, rag_instance, rag, index_file,
          choices, processor_created, processor, collection, ingest,
          embedding_model, gemini_model, chunker, outcome>>

\* an artifact a previous run of the program left on disk, or one written
\* without the vectorizer or the matrix
OldArtifacts ==
    {NoFile, [state |-> "corrupt", data |-> NewRag]} \cup
    {SaveIndex(BuildIndex(LoadDocuments(NewRag, b), TRUE).self) : b \in Batches \ {<<>>}}
    \cup {[SaveIndex(BuildIndex(LoadDocuments(NewRag, <<1>>), TRUE).self)
              EXCEPT !.state = s] : s \in {"lacks_vectorizer", "lacks_tfidf_matrix"}}

\* Each program starts from its own construction; the state of the other two
\* does not exist in its process and stays at its default.
InitRagApi ==
    /\ component = "rag_api"
    /\ contracts \in Batches
    /\ KNOWLEDGE_BASE_ID \in {"", " ", "kb"}
    /\ bedrock_agent_runtime \in {"None", "client"}
    /\ GEMINI_API_KEY \in BOOLEAN
    /\ index_file \in OldArtifacts
    /\ processor_created = FALSE

InitClearclause ==
    /\ component = "clearclause"
    /\ contracts = <<>>
    /\ KNOWLEDGE_BASE_ID = ""
    /\ bedrock_agent_runtime = "None"
    /\ GEMINI_API_KEY = TRUE
    /\ index_file = NoFile
    /\ processor_created \in BOOLEAN

InitChroma ==
    /\ component = "chroma"
    /\ contracts \in Batches
    /\ KNOWLEDGE_BASE_ID = ""
    /\ bedrock_agent_runtime = "None"
    /\ GEMINI_API_KEY \in BOOLEAN
    /\ index_file = NoFile
    /\ processor_created = FALSE

Init ==
    /\ (InitRagApi \/ InitClearclause \/ InitChroma)
    /\ simple_rag_cached = FALSE
    /\ rag_instance = FALSE
    /\ rag = NewRag
    /\ choices = {}
    /\ processor = NewProcessor
    /\ collection = NoCollection
    /\ ingest = Idle
    /\ embedding_model = 0
    /\ gemini_model = 0
    /\ chunker = NoChunker
    /\ outcome = NoOutcome

Next ==
    \/ RagQuery
    \/ RagIngestLocal
    \/ ChangeContracts
    \/ HandleDocumentQna
    \/ AskQuestion
    \/ UploadDocuments
    \/ ClearDocuments
    \/ IngestDelete
    \/ IngestCreate
    \/ IngestAdd
    \/ IngestDone
    \/ QueryRag

Spec == Init /\ [][Next]_vars

\* the calls of chunk_text: every text of up to MaxTextLen characters with one
\* run of whitespace, every chunk_size and every overlap up to MaxWindow; and
\* the page of 450 characters chunked by 200 with an overlap of 50
ChunkTextCalls ==
    {[NoChunker EXCEPT !.fn = "chunk_text", !.pc = "loop", !.text_len = n,
                       !.blank = <<lo, hi>>, !.chunk_size = size, !.overlap = ov] :
        n \in 0..MaxTextLen, lo \in 0..MaxTextLen, hi \in 0..MaxTextLen,
        size \in 1..MaxWindow, ov \in 0..MaxWindow}
    \cup {[NoChunker EXCEPT !.fn = "chunk_text", !.pc = "loop", !.text_len = 450,
                            !.chunk_size = 200, !.overlap = 50]}

\* the pages _load_pdf chunks: their number of words and the length of a word
LoadPdfCalls ==
    {[NoChunker EXCEPT !.fn = "_load_pdf", !.pc = "loop", !.text_len = n,
                       !.chunk_size = WORDS_PER_CHUNK, !.word_len = w] :
        n \in {0, 10, 30, 200, 320, 450}, w \in {1, 5}}

InitChunk ==
    /\ component = "chunker"
    /\ contracts = <<>>
    /\ KNOWLEDGE_BASE_ID = ""
    /\ bedrock_agent_runtime = "None"
    /\ GEMINI_API_KEY = FALSE
    /\ index_file = NoFile
    /\ processor_created = FALSE
    /\ simple_rag_cached = FALSE
    /\ rag_instance = FALSE
    /\ rag = NewRag
    /\ choices = {}
    /\ processor = NewProcessor
    /\ collection = NoCollection
    /\ ingest = Idle
    /\ embedding_model = 0
    /\ gemini_model = 0
    /\ outcome = NoOutcome
    /\ chunker \in {c \in ChunkTextCalls : c.blank[1] <= c.blank[2]
                                          /\ c.blank[2] <= c.text_len}
                   \cup LoadPdfCalls

NextChunk ==
    \/ ChunkTextStep
    \/ LoadPdfStep
    \/ ChunkReturn
    \/ StoreChunks
    \/ NextPage

SpecChunk == InitChunk /\ [][NextChunk]_vars

(* ------------------------------- claims -------------------------------- *)
Range(s) == {s[i] : i \in 1..Len(s)}

\* the managed knowledge base is not configured: its identifier is empty or
\* blank, or no client was created
ManagedUnavailable ==
    KNOWLEDGE_BASE_ID \in {"", " "} \/ bedrock_agent_runtime = "None"

\* C1 (as stated): with the managed and the dense tier unavailable, every query
\* is serviced by the lexical tier, and rag_query's response records it.
C1_LexicalAlwaysServes ==
    /\ (outcome.op = "rag_query" /\ ManagedUnavailable)
          => (outcome.tier = "lexical" /\ outcome.recorded = "local_free")
    /\ (outcome.op = "handle_document_qna" /\ processor.vector_store.none
          /\ processor.text_chunks # <<>>)
          => outcome.tier = "lexical"

\* the lexical tier is there to be used
RagLexicalAvailable == simple_rag_cached /\ rag.vectorizer # "unfitted"
ProcLexicalAvailable ==
    processor.tfidf_vectorizer # "None" /\ ~processor.tfidf_matrix.none

\* C1 (amended): with the managed and the dense tier unavailable and the lexical
\* tier available, the lexical tier services the query; rag_query's response
\* records it as local_free.  Without a TF-IDF index the processor uses the
\* keyword scan.
C1_LexicalServesWhenAvailable ==
    /\ (outcome.op = "rag_query" /\ ManagedUnavailable /\ RagLexicalAvailable)
          => (outcome.kind = "answer" /\ outcome.tier = "lexical"
              /\ outcome.recorded = "local_free"
              /\ outcome.attempted = <<"lexical">>)
    /\ (outcome.op = "handle_document_qna" /\ processor.vector_store.none
          /\ processor.text_chunks # <<>>)
          => outcome.tier = IF ProcLexicalAvailable THEN "lexical" ELSE "keyword"

C1_Witness ==
    /\ component = "clearclause"
    /\ outcome.op = "handle_document_qna"
    /\ processor.vector_store.none
    /\ ProcLexicalAvailable
    /\ outcome.tier = "lexical"
    /\ Len(outcome.citations) = 2

\* C2 (as stated): a transport failure of the managed knowledge base or of the
\* embedding service during a query is recovered by the next tier and does not
\* reach the caller.
C2_TransportFailureFallsThrough ==
    outcome.cause \in {"BotoCoreError", "embedding"}
        => (outcome.kind = "answer" /\ outcome.answer # "error_text"
            /\ outcome.tier \in {"dense", "lexical", "keyword"}
            /\ outcome.tier \notin outcome.failed)

\* C3: the documents of one outcome all come from the one tier that serviced the
\* query, and no second tier was called for it.
C3_SingleTier ==
    /\ \A i \in 1..Len(outcome.citations) : outcome.citations[i].tier = outcome.tier
    /\ Len(outcome.attempted) <= 1
    /\ (outcome.tier # "none" => outcome.attempted = <<outcome.tier>>)

C3_Witness ==
    /\ outcome.op = "handle_document_qna"
    /\ outcome.tier = "lexical"
    /\ Len(outcome.citations) = 2

\* a document question in the fully degraded environment: chunks present, no
\* vector store, no TF-IDF index
Degraded ==
    /\ processor_created
    /\ processor.text_chunks # <<>>
    /\ processor.vector_store.none
    /\ ~ProcLexicalAvailable

\* C4 (as stated): a document question asked once documents were uploaded ends
\* in an answer, never an error response; in the degraded environment it is
\* answered by the keyword tier.
C4_AlwaysAnOutcome ==
    (outcome.op = "ask_question" /\ processor_created /\ processor.text_chunks # <<>>)
        => (outcome.kind = "answer" /\ (Degraded => outcome.tier = "keyword"))

\* the tier that serviced the last query found nothing
LexicalFoundNothing ==
    /\ outcome.op = "rag_query"
    /\ outcome.tier = "lexical"
    /\ Search(rag, outcome.q, QUERY_TOP_K).results = <<>>
KeywordFoundNothing ==
    /\ outcome.op = "handle_document_qna"
    /\ outcome.tier = "keyword"
    /\ \A i \in 1..Len(processor.text_chunks) :
          KeywordCount(outcome.q, processor.text_chunks[i]) = 0

\* C5 (as stated): a tier that finds nothing gives the final answer: no other
\* tier is tried and no chunk stands in for the empty result.
C5_ZeroResultsAreFinal ==
    (LexicalFoundNothing \/ KeywordFoundNothing)
        => (outcome.citations = <<>> /\ outcome.attempted = <<outcome.tier>>)

\* C5 (amended): a tier that finds nothing gives the final answer and no other
\* tier is tried; SimpleFreeRAG.query then returns no citation, and the keyword
\* scan hands the first min(3, N) chunks to the answer step.
C5_ZeroResultsNoFallthrough ==
    /\ LexicalFoundNothing
          => (outcome.citations = <<>> /\ outcome.answer = "no_relevant"
              /\ outcome.attempted = <<"lexical">>)
    /\ (KeywordFoundNothing /\ outcome.answer # "error_text")
          => (outcome.attempted = <<"keyword">>
              /\ outcome.citations =
                    [i \in 1..Min(PROC_TOP_K, Len(processor.text_chunks)) |->
                        [tier |-> "keyword", chunk |-> processor.text_chunks[i]]])

C5_Witness ==
    /\ LexicalFoundNothing
    /\ rag.vectorizer = "fitted"
    /\ Len(rag.chunks) >= 2
    /\ outcome.answer = "no_relevant"

\* C6: without a knowledge base identifier or without a client no query calls
\* the managed service, and every query of the process takes the same backend.
C6_ManagedSkippedByConfiguration ==
    /\ ManagedUnavailable => "managed" \notin choices
    /\ (ManagedUnavailable /\ outcome.op = "rag_query")
          => "managed" \notin Range(outcome.attempted)
    /\ Cardinality(choices) <= 1

C6_Witness ==
    /\ KNOWLEDGE_BASE_ID = " "
    /\ bedrock_agent_runtime = "client"
    /\ outcome.op = "rag_query"
    /\ outcome.kind = "answer"
    /\ choices = {"local"}

\* C7 (as stated): a query that runs while a re-ingestion is in progress sees the
\* complete previous index or the complete new one.
C7_QuerySeesCompleteIndex ==
    (outcome.op = "query_rag" /\ outcome.during /\ ingest.pc # "idle"
        /\ ingest.old.items # <<>>)
        => outcome.seen \in {ingest.old, ingest.new}

\* C8 (as stated): after a re-ingestion the index holds exactly the chunks of
\* the current documents, each once.
C8_ReingestReplaces ==
    [][(RagIngestLocal /\ outcome'.answer = "success") => rag'.chunks = contracts]_vars

\* C9 (as stated): the index has one vector and one metadata record per chunk,
\* vector i is that of chunk i, and a vectorizer is set only with its matrix.
IndexConsistent(self) ==
    /\ Len(self.metadata) = Len(self.chunks)
    /\ (self.vectorizer # "None" => ~self.tfidf_matrix.none)
    /\ (~self.tfidf_matrix.none => self.tfidf_matrix.rows = self.chunks)
    /\ (self.tfidf_matrix.none => self.chunks = <<>>)
C9_VectorsMatchChunks ==
    /\ IndexConsistent(rag)
    /\ (index_file.state = "valid" => IndexConsistent(index_file.data))

\* the state that requests share
SharedState == <<simple_rag_cached, rag_instance, rag, index_file, processor_created,
                 processor, collection, embedding_model, gemini_model>>
QueryStep == RagQuery \/ HandleDocumentQna \/ AskQuestion \/ QueryRag

\* C10 (as stated): serving a query writes no shared state.
C10_QueryWritesNothing ==
    [][QueryStep => UNCHANGED SharedState]_vars

\* the lazily created singletons of the component exist
SingletonsExist ==
    CASE component = "rag_api" -> simple_rag_cached
      [] component = "clearclause" -> processor_created
      [] OTHER -> embedding_model # 0 /\ (gemini_model # 0 \/ ~GEMINI_API_KEY)

\* C10 (amended): once the lazily created singletons exist, serving a query
\* writes no shared state: no step that changes shared state is a query.
C10_QueryWritesNothingOnceInitialised ==
    [][(SingletonsExist /\ SharedState' # SharedState) => ~QueryStep]_vars

C10_Witness ==
    /\ component = "chroma"
    /\ embedding_model # 0
    /\ outcome.op = "query_rag"
    /\ outcome.kind = "answer"
    /\ Len(outcome.citations) = 2

\* the values of k a caller can pass to search
TopKs == 1..QUERY_TOP_K
NonIncreasing(s) == \A i \in 1..(Len(s) - 1) : s[i] >= s[i + 1]
BuiltRag == rag.vectorizer = "fitted" /\ ~rag.tfidf_matrix.none

\* the similarities of the documents the processor's TF-IDF branch returns
TfidfScores(q) ==
    LET docs == TfidfDocs(processor, q)
    IN [i \in 1..Len(docs) |-> Sim(q, docs[i].chunk)]

\* SimpleFreeRAG.search on a built index: at most min(k, N) results, in
\* non-increasing order of score, every score above the threshold
SearchBounded ==
    BuiltRag =>
        \A q \in Queries, k \in TopKs :
            LET r == Search(rag, q, k).results
                scores == [i \in 1..Len(r) |-> r[i].score]
            IN /\ Len(r) <= Min(k, Len(rag.chunks))
               /\ NonIncreasing(scores)
               /\ \A i \in 1..Len(r) : scores[i] > SCORE_THRESHOLD

FirstPos(chunks, x) ==
    CHOOSE i \in 1..Len(chunks) :
        chunks[i] = x /\ \A j \in 1..(i - 1) : chunks[j] # x

\* equal scores appear in the order of insertion
TiesInInsertionOrder(chunks, texts, scores) ==
    \A i, j \in 1..Len(texts) :
        (i < j /\ scores[i] = scores[j])
            => FirstPos(chunks, texts[i]) <= FirstPos(chunks, texts[j])

\* C12 (as stated): among the results of one search, chunks of equal score
\* appear in their insertion order, in SimpleFreeRAG.search, in the TF-IDF
\* branch of handle_document_qna and in its keyword scorer.
C12_StableRanking ==
    /\ BuiltRag =>
          \A q \in Queries, k \in TopKs :
              LET r == Search(rag, q, k).results
              IN TiesInInsertionOrder(rag.chunks,
                                      [i \in 1..Len(r) |-> r[i].text],
                                      [i \in 1..Len(r) |-> r[i].score])
    /\ ProcLexicalAvailable =>
          \A q \in Queries :
              LET docs == TfidfDocs(processor, q)
              IN TiesInInsertionOrder(processor.text_chunks,
                                      [i \in 1..Len(docs) |-> docs[i].chunk],
                                      TfidfScores(q))
    /\ processor.text_chunks # <<>> =>
          \A q \in Queries :
              LET docs == KeywordDocs(processor, q)
              IN TiesInInsertionOrder(processor.text_chunks,
                                      [i \in 1..Len(docs) |-> docs[i].chunk],
                                      [i \in 1..Len(docs) |->
                                          KeywordCount(q, docs[i].chunk)])

\* the local index has no matrix: nothing was ingested, or the build failed
UnbuiltRag == rag.tfidf_matrix.none

\* C13 (as stated): an ingestion of zero documents leaves an index of zero
\* chunks, and every query against an unbuilt or empty index, also after a
\* failed ingestion, is answered with empty citations and raises nothing.
C13_EmptyIndexAnswersEmpty ==
    /\ (outcome.op = "rag_ingest_local" /\ outcome.answer = "warning")
          => rag.chunks = <<>>
    /\ UnbuiltRag =>
          \A q \in Queries : /\ ~Search(rag, q, QUERY_TOP_K).raised
                             /\ Search(rag, q, QUERY_TOP_K).results = <<>>
    /\ (outcome.op = "rag_query" /\ simple_rag_cached /\ ~UseAws /\ UnbuiltRag)
          => (outcome.kind = "answer" /\ outcome.citations = <<>>)

DocumentQuestion == outcome.op \in {"handle_document_qna", "ask_question"}

\* C15: the keyword scan serves a document question only when neither a vector
\* store nor a TF-IDF index exists; a TF-IDF index is used only without a vector
\* store, and a vector store is used whenever there is one.
C15_KeywordOnlyWithoutLexical ==
    DocumentQuestion =>
        /\ outcome.tier = "keyword"
              => (processor.vector_store.none /\ ~ProcLexicalAvailable)
        /\ outcome.tier = "lexical"
              => (processor.vector_store.none /\ ProcLexicalAvailable)
        /\ ~processor.vector_store.none
              => (outcome.tier \in {"dense", "none"}
                  /\ Range(outcome.attempted) \subseteq {"dense"})

\* a question served by the keyword scan after an upload whose TF-IDF and
\* embedding builds both failed
C15_Witness ==
    /\ outcome.op = "handle_document_qna"
    /\ outcome.tier = "keyword"
    /\ outcome.q # 0
    /\ Len(processor.text_chunks) = 2
    /\ Len(outcome.citations) = 2

\* the classes of failure of the managed call
ManagedFailures == {"AccessDeniedException", "ResourceNotFoundException",
                    "ThrottlingException", "OtherClientError", "BotoCoreError"}

\* C16: a failure of the managed call reaches the caller as an error whose
\* status is that of its class; the five classes have five different statuses,
\* and no local answer replaces the error.
C16_ManagedFailuresDistinct ==
    (outcome.op = "rag_query" /\ outcome.cause \in ManagedFailures) =>
        /\ outcome.kind = "error"
        /\ outcome.status = AwsStatus(outcome.cause)
        /\ \A other \in ManagedFailures \ {outcome.cause} :
              AwsStatus(other) # outcome.status
        /\ outcome.status # 200
        /\ outcome.tier = "none" /\ outcome.recorded = "none"
        /\ outcome.citations = <<>>
        /\ outcome.attempted = <<"managed">>

C16_Witness ==
    /\ outcome.op = "rag_query"
    /\ outcome.cause = "ThrottlingException"
    /\ outcome.status = 429
    /\ choices = {"managed"}

\* how much text the first citation of the last outcome carries: its snippet
\* where the citation has one, else the whole chunk text
TopSnippet ==
    IF "snippet" \in DOMAIN outcome.citations[1]
    THEN outcome.citations[1].snippet
    ELSE TextLen(outcome.citations[1].chunk)

\* the number of characters of the first chunk a fallback answer may quote
ExcerptLimit ==
    CASE outcome.op = "rag_query" -> EXTRACT_CHARS
      [] outcome.op = "query_rag" -> QUOTA_EXCERPT_CHARS
      [] OTHER -> OFFLINE_CONTEXT_CHARS

FallbackAnswers == {"extractive", "offline_excerpts"}

\* the answer was synthesised from retrieved passages (handle_general_qna
\* retrieves nothing and has no passage to fall back on)
FromPassages == outcome.op # "ask_general"

\* C17 (as stated): on a quota error of the generation backend the answer to a
\* question over retrieved passages is the fallback text and contains all of
\* the first citation's snippet; nothing is raised.
C17_QuotaFallbackHoldsSnippet ==
    outcome.gen = "quota" /\ FromPassages =>
        /\ outcome.kind = "answer"
        /\ outcome.answer \in FallbackAnswers
        /\ outcome.citations # <<>> => outcome.excerpt >= TopSnippet

\* C17 (amended): on a quota error of the generation backend nothing is raised
\* and the answer to a question over retrieved passages is the fallback text;
\* it quotes the first chunk's text from its start, cut at 500 characters by
\* SimpleFreeRAG.generate_answer (which covers
\* the 400-character snippet), at 300 by rag_query.generate_answer and at 2000
\* by handle_document_qna, whose citations carry the whole chunk.
C17_QuotaFallbackQuotesPrefix ==
    outcome.gen = "quota" /\ FromPassages =>
        /\ outcome.kind = "answer"
        /\ outcome.answer \in FallbackAnswers
        /\ outcome.citations # <<>> =>
              /\ outcome.excerpt =
                    Min(TextLen(outcome.citations[1].chunk), ExcerptLimit)
              /\ outcome.excerpt > 0
              /\ outcome.op = "rag_query" => outcome.excerpt >= TopSnippet

\* a quota error answered with 500 characters of a 1000-character chunk whose
\* snippet has 400
C17_Witness ==
    /\ outcome.op = "rag_query"
    /\ outcome.gen = "quota"
    /\ outcome.answer = "extractive"
    /\ outcome.citations # <<>>
    /\ TextLen(outcome.citations[1].chunk) > EXTRACT_CHARS
    /\ outcome.excerpt = EXTRACT_CHARS
    /\ TopSnippet = SNIPPET_CHARS

\* C18 (as stated): on any other error of the generation backend the answer is
\* a description of the error; nothing is raised.
C18_OtherErrorsDescribed ==
    outcome.gen = "error" =>
        (outcome.kind = "answer" /\ outcome.answer = "error_text")

\* C18 (amended): on any other error of the generation backend nothing is
\* raised; rag_query.generate_answer returns a description of the error, while
\* SimpleFreeRAG.generate_answer and handle_document_qna return the same
\* fallback text as for a quota error.  handle_document_qna describes the error
\* only when the model cannot be constructed.
C18_OtherErrorsByComponent ==
    /\ outcome.gen = "error" =>
          /\ outcome.kind = "answer"
          /\ outcome.answer = CASE outcome.op = "query_rag" -> "error_text"
                                [] outcome.op = "rag_query" -> "extractive"
                                [] OTHER -> "offline_excerpts"
          /\ outcome.op = "query_rag" => outcome.excerpt = 0
    /\ outcome.gen = "init_error" =>
          (outcome.kind = "answer" /\ outcome.answer = "error_text")

C18_Witness ==
    /\ outcome.op = "query_rag"
    /\ outcome.gen = "error"
    /\ outcome.answer = "error_text"
    /\ Len(outcome.citations) = 2

\* errors of an external call that a retry cannot cure
PermanentErrors == {"403", "404", "auth", "AccessDeniedException",
                    "ResourceNotFoundException"}

\* C19 (as stated): one operation calls an external service at most twice, and
\* a call that ended in an authorization or not-found error is not repeated.
C19_AtMostOneRetry ==
    /\ Len(outcome.log) <= 2
    /\ Len(outcome.attempted) <= 2
    /\ \A i \in 1..(Len(outcome.log) - 1) : outcome.log[i] \notin PermanentErrors
    /\ \A i \in 1..(Len(outcome.log) - 1) : outcome.log[i] # "ok"

\* the windows of a text of len units: window j (from 0) is cut at the end of
\* the text, and there is one for every start inside the text
Windows(len, size, step) ==
    [i \in 1..((len + step - 1) \div step) |->
        Slice((i - 1) * step, (i - 1) * step + size, len)]
\* the units two consecutive windows have in common
Shared(w, next) == IF w[2] > next[1] THEN w[2] - next[1] ELSE 0
ChunkTextDone == chunker.fn = "chunk_text" /\ chunker.pc = "done"
\* the windows advance: the overlap is smaller than the window
Advancing == chunker.overlap < chunker.chunk_size
LoadPdfDone == chunker.fn = "_load_pdf" /\ chunker.pc = "done"
\* 450 units by windows of 200 with an overlap of 50
ScenarioChunks == <<(<<0, 200>>), (<<150, 350>>), (<<300, 450>>)>>
NotOnlyWhitespace(w) == ~OnlyWhitespace(w, chunker.blank)
NotTiny(w) == JoinedLen(w[2] - w[1], chunker.word_len) > TINY_CHARS

\* C20 (as stated): 450 units chunked by 200 with an overlap of 50 give the
\* chunks 0-200, 150-350 and 300-450, and consecutive windows share exactly
\* overlap units, in chunk_text and in _load_pdf.
C20_WindowsShareOverlap ==
    /\ (ChunkTextDone /\ chunker.text_len = 450 /\ chunker.chunk_size = 200
            /\ chunker.overlap = 50
        => chunker.chunks = ScenarioChunks)
    /\ (LoadPdfDone /\ chunker.text_len = 450 /\ chunker.word_len = 5
        => chunker.chunks = ScenarioChunks)
    /\ (ChunkTextDone /\ Advancing =>
          LET w == Windows(chunker.text_len, chunker.chunk_size,
                           chunker.chunk_size - chunker.overlap)
          IN \A j \in 1..(Len(w) - 1) : Shared(w[j], w[j + 1]) = chunker.overlap)

\* C20 (amended): chunk_text gives the chunks 0-200, 150-350 and 300-450 for
\* 450 units, windows of 200 and an overlap of 50; with an overlap smaller than
\* chunk_size its chunks are, in order,
\* the windows starting at j*(chunk_size - overlap) that are not whitespace
\* only, and a window shares with the one before it overlap units or, when the
\* text ends first, all of its own.  _load_pdf cuts windows of 200 words that
\* share nothing and keeps those longer than 50 characters.
C20_ChunkTextWindows ==
    /\ (ChunkTextDone /\ chunker.text_len = 450 /\ chunker.chunk_size = 200
            /\ chunker.overlap = 50
        => chunker.chunks = ScenarioChunks)
    /\ (ChunkTextDone /\ Advancing =>
          LET w == Windows(chunker.text_len, chunker.chunk_size,
                           chunker.chunk_size - chunker.overlap)
          IN /\ chunker.chunks = SelectSeq(w, NotOnlyWhitespace)
             /\ \A j \in 1..(Len(w) - 1) :
                    Shared(w[j], w[j + 1]) =
                        Min(chunker.overlap, w[j + 1][2] - w[j + 1][1]))
    /\ (LoadPdfDone =>
          LET w == Windows(chunker.text_len, WORDS_PER_CHUNK, WORDS_PER_CHUNK)
          IN /\ chunker.chunks = SelectSeq(w, NotTiny)
             /\ \A j \in 1..(Len(w) - 1) : Shared(w[j], w[j + 1]) = 0)
C20_Witness ==
    /\ ChunkTextDone
    /\ chunker.text_len = 450 /\ chunker.overlap = 50
    /\ Len(chunker.chunks) = 3

\* the page has a visible character (extract_text_from_pdf and _load_pdf skip
\* the pages whose text.strip() is empty)
PageNotBlank ==
    chunker.text_len >= 1 /\ ~OnlyWhitespace(<<0, chunker.text_len>>, chunker.blank)

\* C21: a page that is not empty and shorter than the window gives exactly one
\* chunk, whatever the overlap, in chunk_text and in _load_pdf.
C21_ShortPageOneChunk ==
    chunker.pc = "done" /\ PageNotBlank /\ chunker.text_len < chunker.chunk_size
        => Len(chunker.chunks) = 1

\* C22: every chunk emitted so far has at least one and at most chunk_size
\* units and holds a visible character, so a window of whitespace only gave no
\* chunk.
C22_ChunksBoundedAndVisible ==
    \A i \in 1..Len(chunker.chunks) :
        LET c == chunker.chunks[i]
        IN /\ c[2] - c[1] >= 1
           /\ c[2] - c[1] <= chunker.chunk_size
           /\ \E p \in c[1]..(c[2] - 1) : p < chunker.blank[1] \/ p >= chunker.blank[2]

\* chunk_text returned chunks after skipping a window of whitespace, one of
\* them a full window
C22_Witness ==
    /\ ChunkTextDone
    /\ Len(chunker.chunks) >= 1
    /\ Len(chunker.chunks) < Len(Windows(chunker.text_len, chunker.chunk_size,
                                         chunker.chunk_size - chunker.overlap))
    /\ \E i \in 1..Len(chunker.chunks) :
           chunker.chunks[i][2] - chunker.chunks[i][1] = chunker.chunk_size

\* an answer of rag_query made by the local index
LocalAnswer ==
    outcome.op = "rag_query" /\ outcome.kind = "answer" /\ outcome.tier = "lexical"

C26_StartIncreases ==
    [][ChunkTextStep => chunker'.start > chunker.start]_vars

\* C27: when get_simple_rag returns None, rag_query and rag_ingest_local answer
\* with status 503, the status raised inside the handler.
C27_LocalUnavailableIs503 ==
    outcome.cause = "local_unavailable" => outcome.status = 503

\* C28: every response of rag_query carries at most MAX_RESULTS citations, on
\* the local and on the managed path.
C28_AtMostMaxResults ==
    outcome.op = "rag_query" => Len(outcome.citations) <= MAX_RESULTS

\* C29: when load_index, called on the instance get_simple_rag made, returns
\* False the four fields of the instance are what they were before the call,
\* and when it returns True all four are those of the artifact.
C29_FailedLoadChangesNothing ==
    rag_instance =>
        LET l == LoadIndex(rag, index_file)
        IN /\ ~l.ok => l.self = rag
           /\ l.ok => l.self = index_file.data

\* C30: clear() leaves every field of the processor at its initial value,
\* whatever was processed before, and handle_document_qna then answers that no
\* documents are uploaded; a process_documents that returns False changes no
\* field; the fields change in no other way than by clear() and by a
\* process_documents that returns True.
C30_ClearResetsFailedProcessKeeps ==
    [][/\ (ClearDocuments /\ processor_created =>
              /\ processor' = NewProcessor
              /\ \A q \in Queries, gen \in ProcGenOutcomes :
                    HandleDocumentQnaResult(processor', q, TRUE, gen).answer
                        = "no_documents")
       /\ (UploadDocuments /\ outcome'.kind = "error" => processor' = processor)
       /\ (processor' # processor =>
              ClearDocuments \/ (UploadDocuments /\ outcome'.kind = "answer"))
      ]_vars

\* the processor after a clear()
C30_Witness ==
    /\ outcome.op = "clear"
    /\ processor_created
    /\ processor = NewProcessor

=============================================================================
